---- MODULE Spec2Model ----
(***************************************************************************)
(* Model of recording_data/streamers/outdated/E4Streamer.py: the E4        *)
(* streaming-server client (connect + handshake, _read_data, _run, quit).  *)
(* Text is modelled as a sequence of one-character strings so that         *)
(* str.split, str.replace, float() and int() are computed, not assumed.    *)
(***************************************************************************)
EXTENDS Integers, Sequences, FiniteSets, TLC

(***************************************************************************)
(* Bounds of the model (not program constants).                            *)
(***************************************************************************)
MaxConnects == 1
MaxRuns == 1

(***************************************************************************)
(* Program constants.                                                      *)
(***************************************************************************)
BufferReadSize == 4096

Modality == {"E4_Acc", "E4_Bvp", "E4_Gsr", "E4_Temperature"}

\* The tag literals compared against stream_type in _read_data and _run.
TagAcc == <<"E", "4", "_", "A", "c", "c">>
TagBvp == <<"E", "4", "_", "B", "v", "p">>
TagGsr == <<"E", "4", "_", "G", "s", "r">>
TagTmp == <<"E", "4", "_", "T", "e", "m", "p", "e", "r", "a", "t", "u", "r", "e">>

\* stream_type (a token) as the modality it names, or "other".
TagOf(tok) ==
  IF tok = TagAcc THEN "E4_Acc"
  ELSE IF tok = TagBvp THEN "E4_Bvp"
  ELSE IF tok = TagGsr THEN "E4_Gsr"
  ELSE IF tok = TagTmp THEN "E4_Temperature"
  ELSE "other"

(***************************************************************************)
(* Text primitives.                                                        *)
(***************************************************************************)
NL == "\n"
BadByte == "?"   \* stands for a byte that is not valid UTF-8
Whitespace == {" ", "\r", "\t"}
Digits == {"0", "1", "2", "3", "4", "5", "6", "7", "8", "9"}

DigitVal(c) ==
  CASE c = "0" -> 0 [] c = "1" -> 1 [] c = "2" -> 2 [] c = "3" -> 3
    [] c = "4" -> 4 [] c = "5" -> 5 [] c = "6" -> 6 [] c = "7" -> 7
    [] c = "8" -> 8 [] c = "9" -> 9

\* bytes.decode("utf-8"): raises on an invalid byte.
DecodeOk(chunk) == \A i \in 1..Len(chunk) : chunk[i] # BadByte

\* str.split(sep) for a one-character separator: count(sep)+1 segments,
\* empty segments kept.
RECURSIVE SplitSep(_, _, _, _)
SplitSep(s, sep, i, cur) ==
  IF i > Len(s) THEN <<cur>>
  ELSE IF s[i] = sep THEN <<cur>> \o SplitSep(s, sep, i + 1, <<>>)
  ELSE SplitSep(s, sep, i + 1, Append(cur, s[i]))

SplitLines(s) == SplitSep(s, NL, 1, <<>>)

\* str.split() with no argument: runs of whitespace separate, no empty tokens.
RECURSIVE SplitWs(_, _, _)
SplitWs(s, i, cur) ==
  IF i > Len(s) THEN (IF cur = <<>> THEN <<>> ELSE <<cur>>)
  ELSE IF s[i] \in Whitespace
       THEN (IF cur = <<>> THEN <<>> ELSE <<cur>>) \o SplitWs(s, i + 1, <<>>)
       ELSE SplitWs(s, i + 1, Append(cur, s[i]))

Tokens(line) == SplitWs(line, 1, <<>>)

\* Replace without the replacement: the token is converted as received.
MutReplace(tok) == tok

\* tok.replace(',', '.')
Replace(tok) == [i \in 1..Len(tok) |-> IF tok[i] = "," THEN "." ELSE tok[i]]

(***************************************************************************)
(* Numeric conversion.  A float is kept exactly as mantissa m and number   *)
(* of fractional digits e (value m / 10^e), trailing zeros removed, so     *)
(* that "12.500" and "12.5" convert to the same value.                     *)
(***************************************************************************)
Unsigned(tok) ==
  IF Len(tok) > 0 /\ tok[1] \in {"-", "+"} THEN SubSeq(tok, 2, Len(tok)) ELSE tok

Sign(tok) == IF Len(tok) > 0 /\ tok[1] = "-" THEN -1 ELSE 1

DotCount(s) == Cardinality({i \in 1..Len(s) : s[i] = "."})
DigitCount(s) == Cardinality({i \in 1..Len(s) : s[i] \in Digits})

\* Position of the '.', or Len+1 when there is none.
DotPos(s) ==
  IF DotCount(s) = 0 THEN Len(s) + 1
  ELSE CHOOSE i \in 1..Len(s) : s[i] = "."

\* Value of the digits of s read as one decimal numeral, '.' skipped.
RECURSIVE DigitsValue(_, _, _)
DigitsValue(s, i, acc) ==
  IF i > Len(s) THEN acc
  ELSE IF s[i] = "." THEN DigitsValue(s, i + 1, acc)
  ELSE DigitsValue(s, i + 1, acc * 10 + DigitVal(s[i]))

RECURSIVE Norm(_, _)
Norm(m, e) ==
  IF e > 0 /\ m % 10 = 0 THEN Norm(m \div 10, e - 1) ELSE [ok |-> TRUE, m |-> m, e |-> e]

NumError == [ok |-> FALSE, m |-> 0, e |-> 0]

\* float(tok): optional sign, digits with at most one '.', at least one
\* digit; anything else raises ValueError (ok = FALSE).
ParseFloat(tok) ==
  LET b == Unsigned(tok) IN
  IF /\ \A i \in 1..Len(b) : b[i] \in Digits \cup {"."}
     /\ DotCount(b) <= 1
     /\ DigitCount(b) >= 1
  THEN Norm(Sign(tok) * DigitsValue(b, 1, 0), Len(b) + 1 - DotPos(b) - DotCount(b))
  ELSE NumError

\* int(tok): optional sign, digits only; a '.' raises ValueError.
ParseInt(tok) ==
  LET b == Unsigned(tok) IN
  IF Len(b) >= 1 /\ \A i \in 1..Len(b) : b[i] \in Digits
  THEN [ok |-> TRUE, m |-> Sign(tok) * DigitsValue(b, 1, 0), e |-> 0]
  ELSE NumError

(***************************************************************************)
(* _read_data, the part after the receive: one pass over the complete      *)
(* lines of one decoded chunk.  A sample is [tag, t, d]: t is <<m, e>>,    *)
(* d is <<x, y, z>> for E4_Acc and <<m, e>> for the float modalities.      *)
(***************************************************************************)
NoSample == [tag |-> "other", t |-> <<>>, d |-> <<>>]

\* LineStep with the timestamp converted before the tag is looked at.
MutLineStep(line, outlets) ==
  LET toks == Tokens(line)
      tag == TagOf(toks[1])
      tm == ParseFloat(Replace(toks[2]))
      fl == ParseFloat(Replace(toks[3]))
      ix == ParseInt(Replace(toks[3]))
      iy == ParseInt(Replace(toks[4]))
      iz == ParseInt(Replace(toks[5]))
      Raise == [res |-> "raise", s |-> NoSample]
  IN
  IF Len(toks) = 0 THEN Raise
  ELSE IF Len(toks) < 2 THEN Raise
  ELSE IF ~tm.ok THEN Raise
  ELSE IF tag = "other" THEN [res |-> "skip", s |-> NoSample]
  ELSE IF tag = "E4_Acc"
       THEN IF Len(toks) < 5 THEN Raise
            ELSE IF ~(ix.ok /\ iy.ok /\ iz.ok) THEN Raise
            ELSE IF ~outlets[tag] THEN Raise
            ELSE [res |-> "sample",
                  s |-> [tag |-> tag, t |-> <<tm.m, tm.e>>, d |-> <<ix.m, iy.m, iz.m>>]]
       ELSE IF Len(toks) < 3 THEN Raise
            ELSE IF ~fl.ok THEN Raise
            ELSE IF ~outlets[tag] THEN Raise
            ELSE [res |-> "sample",
                  s |-> [tag |-> tag, t |-> <<tm.m, tm.e>>, d |-> <<fl.m, fl.e>>]]

\* Body of the for loop for one element of samples: "sample" when the line
\* is parsed and pushed, "skip" when no branch matches, "raise" when any
\* expression of the body raises (IndexError, ValueError, NameError).
LineStep(line, outlets) ==
  LET toks == Tokens(line)
      tag == TagOf(toks[1])
      tm == ParseFloat(Replace(toks[2]))
      fl == ParseFloat(Replace(toks[3]))
      ix == ParseInt(Replace(toks[3]))
      iy == ParseInt(Replace(toks[4]))
      iz == ParseInt(Replace(toks[5]))
      Raise == [res |-> "raise", s |-> NoSample]
  IN
  IF Len(toks) = 0 THEN Raise
  ELSE IF tag = "other" THEN [res |-> "skip", s |-> NoSample]
  ELSE IF Len(toks) < 2 THEN Raise
  ELSE IF ~tm.ok THEN Raise
  ELSE IF tag = "E4_Acc"
       THEN IF Len(toks) < 5 THEN Raise
            ELSE IF ~(ix.ok /\ iy.ok /\ iz.ok) THEN Raise
            ELSE IF ~outlets[tag] THEN Raise
            ELSE [res |-> "sample",
                  s |-> [tag |-> tag, t |-> <<tm.m, tm.e>>, d |-> <<ix.m, iy.m, iz.m>>]]
       ELSE IF Len(toks) < 3 THEN Raise
            ELSE IF ~fl.ok THEN Raise
            ELSE IF ~outlets[tag] THEN Raise
            ELSE [res |-> "sample",
                  s |-> [tag |-> tag, t |-> <<tm.m, tm.e>>, d |-> <<fl.m, fl.e>>]]

\* for i in range(len(samples) - 1): ...  acc.out are the samples pushed to
\* the LSL outlets and appended to the three lists so far, acc.idx the
\* indices of their lines, acc.faultAt the index of the line that raised.
RECURSIVE LineLoop(_, _, _, _)
LineLoop(samples, i, outlets, acc) ==
  IF i > Len(samples) - 1 THEN acc
  ELSE LET r == LineStep(samples[i], outlets) IN
       IF r.res = "raise" THEN [acc EXCEPT !.ok = FALSE, !.faultAt = i]
       ELSE IF r.res = "sample"
            THEN LineLoop(samples, i + 1, outlets,
                          [acc EXCEPT !.out = Append(@, r.s), !.idx = Append(@, i)])
            ELSE LineLoop(samples, i + 1, outlets, acc)

EmptyPass == [ok |-> TRUE, out |-> <<>>, idx |-> <<>>, faultAt |-> 0]

\* _read_data on a received chunk: decode, split on "\n", loop.  The
\* segment after the last "\n" is not processed and not kept.
ReadChunk(chunk, outlets) ==
  IF ~DecodeOk(chunk) THEN [EmptyPass EXCEPT !.ok = FALSE]
  ELSE LineLoop(SplitLines(chunk), 1, outlets, EmptyPass)

(***************************************************************************)
(* Input catalogue: the lines the streaming server may send.               *)
(***************************************************************************)
LnAcc == TagAcc \o <<" ", "1", ".", "5", " ", "1", " ", "2", " ", "3", "\n">>
LnBvp == TagBvp \o <<" ", "2", ",", "5", " ", "3", ",", "2", "5", "\r", "\n">>
LnGsr == TagGsr \o <<" ", "3", " ", "0", ".", "5", "\n">>
LnTmp == TagTmp \o <<" ", "4", " ", "3", "6", "\n">>
LnBad == TagBvp \o <<" ", "5", " ", "x", "\n">>
LnShort == TagAcc \o <<" ", "6", " ", "1", " ", "2", "\n">>
LnUnknown == <<"E", "4", "_", "U", " ", "1", ".", "0", " ", "5", "\n">>
LnUnknown1 == <<"F", "o", "o", "\n">>
LnLong == TagGsr \o <<" ", "7", " ", "0", ".", "5", " ", "9", "\n">>
LnBlank == <<" ", "\n">>
LnGarbage == <<BadByte, "\n">>
LnGsr2 == TagGsr \o <<" ", "9", " ", "1", "\n">>

Streams ==
  { LnAcc \o LnBvp \o LnGsr \o LnTmp,
    LnGsr \o LnBad \o LnBvp,
    LnBvp \o LnShort \o LnGsr,
    LnUnknown1 \o LnUnknown \o LnGsr,
    LnUnknown \o LnUnknown1,
    LnLong \o LnBlank \o LnGarbage,
    LnGsr \o LnTmp \o LnGsr2 }

AllEnabled == [m \in Modality |-> TRUE]
EnabledConfigs == { AllEnabled, [AllEnabled EXCEPT !["E4_Acc"] = FALSE] }

(***************************************************************************)
(* Handshake of _connect: the sends and response reads, in program order.  *)
(***************************************************************************)
Send(c) == [op |-> "send", cmd |-> c]
Recv == [op |-> "recv", cmd |-> ""]

Exchange(c) == <<Send(c), Recv>>

\* SubscribeOps with the E4_Acc subscription sent whatever self._acc is.
MutSubscribeOps(en) ==
  Exchange("device_subscribe acc ON")
  \o (IF en["E4_Bvp"] THEN Exchange("device_subscribe bvp ON") ELSE <<>>)
  \o (IF en["E4_Gsr"] THEN Exchange("device_subscribe gsr ON") ELSE <<>>)
  \o (IF en["E4_Temperature"] THEN Exchange("device_subscribe tmp ON") ELSE <<>>)

SubscribeOps(en) ==
  (IF en["E4_Acc"] THEN Exchange("device_subscribe acc ON") ELSE <<>>)
  \o (IF en["E4_Bvp"] THEN Exchange("device_subscribe bvp ON") ELSE <<>>)
  \o (IF en["E4_Gsr"] THEN Exchange("device_subscribe gsr ON") ELSE <<>>)
  \o (IF en["E4_Temperature"] THEN Exchange("device_subscribe tmp ON") ELSE <<>>)

HandshakeOps(en) ==
  Exchange("device_list") \o Exchange("device_connect D931CD")
  \o Exchange("pause ON") \o SubscribeOps(en) \o Exchange("pause OFF")

(***************************************************************************)
(* State.                                                                  *)
(***************************************************************************)
VARIABLES
  input,         \* ghost: the whole byte stream the server sends
  stream,        \* bytes the server has not delivered yet
  enabled,       \* self._acc, self._bvp, self._gsr, self._tmp
  outlets,       \* which of the globals outletACC/BVP/GSR/Tmp exist
  sock,          \* self._socket: "none", "unconnected", "connected", "closed"
  peer,          \* condition of the connection: "up", "reset", "eof"
  buffer,        \* self._buffer
  running,       \* self._running
  stopped,       \* stop() was called since the last run()
  runPc,         \* _run: "idle", "loop", "done"
  runResult,     \* how _run ended: "none", "returned", "AttributeError"
  connectResult, \* how _connect ended: "none", "true", "unreachable"
                 \* (socket.connect raised), "raised" (a handshake step raised)
  quitResult,    \* how quit ended: "none", "ok", "AttributeError"
  wire,          \* sends and response reads of the last _connect
  pushed,        \* samples pushed to the LSL outlets, in call order
  delivered,     \* append_data calls, in call order
  last,          \* outcome of the last _read_data call
  cleanups,      \* executions of the finally clause of _run
  connects,      \* calls of _connect
  runs           \* calls of run

vars == <<input, stream, enabled, outlets, sock, peer, buffer, running, stopped,
          runPc, runResult, connectResult, quitResult, wire, pushed, delivered,
          last, cleanups, connects, runs>>

NoRead == [recv |-> "none", ok |-> TRUE, faultAt |-> 0,
           idx |-> <<>>, n |-> 0, appended |-> 0, logged |-> FALSE, slept |-> FALSE]

Init ==
  /\ input \in Streams
  /\ stream = input
  /\ enabled \in EnabledConfigs
  /\ outlets = [m \in Modality |-> FALSE]
  /\ sock = "none"
  /\ peer = "up"
  /\ buffer = <<>>
  /\ running = FALSE
  /\ stopped = FALSE
  /\ runPc = "idle"
  /\ runResult = "none"
  /\ connectResult = "none"
  /\ quitResult = "none"
  /\ wire = <<>>
  /\ pushed = <<>>
  /\ delivered = <<>>
  /\ last = NoRead
  /\ cleanups = 0
  /\ connects = 0
  /\ runs = 0

(***************************************************************************)
(* _connect.  k = 0: socket.connect raises; 1 <= k <= Len(ops): the k-th   *)
(* send or response read of the handshake raises; k = Len(ops) + 1: every  *)
(* step succeeds, the outlets are created and True is returned.  Whatever  *)
(* raises leaves _connect as an exception with self._socket still holding  *)
(* the socket object made on entry: _connect has no handler and no close.  *)
(* The caller connects before it starts the run loop and not after quit.   *)
(***************************************************************************)
Connect ==
  /\ connects < MaxConnects
  /\ quitResult = "none"
  /\ runPc = "idle"
  /\ connects' = connects + 1
  /\ LET ops == HandshakeOps(enabled) IN
     \E k \in 0..(Len(ops) + 1) :
       /\ sock' = IF k = 0 THEN "unconnected" ELSE "connected"
       /\ peer' = IF k \in 1..Len(ops) THEN "reset" ELSE "up"
       /\ wire' = IF k = 0 THEN <<>> ELSE SubSeq(ops, 1, k - 1)
       /\ connectResult' = IF k = Len(ops) + 1 THEN "true"
                           ELSE IF k = 0 THEN "unreachable" ELSE "raised"
       /\ outlets' = IF k = Len(ops) + 1
                     THEN [m \in Modality |-> outlets[m] \/ enabled[m]]
                     ELSE outlets
  /\ UNCHANGED <<input, stream, enabled, buffer, running, stopped, runPc, runResult,
                 quitResult, pushed, delivered, last, cleanups, runs>>

(***************************************************************************)
(* run() and stop() of the SensorStreamer base class.                      *)
(***************************************************************************)
Run ==
  /\ runs < MaxRuns
  /\ quitResult = "none"
  /\ runPc \in {"idle", "done"}
  /\ runs' = runs + 1
  /\ running' = TRUE
  /\ stopped' = FALSE
  /\ runPc' = "loop"
  /\ runResult' = "none"
  /\ last' = NoRead
  /\ UNCHANGED <<input, stream, enabled, outlets, sock, peer, buffer, connectResult,
                 quitResult, wire, pushed, delivered, cleanups, connects>>

Stop ==
  /\ quitResult = "none"
  /\ running' = FALSE
  /\ stopped' = TRUE
  /\ UNCHANGED <<input, stream, enabled, outlets, sock, peer, buffer, runPc, runResult,
                 connectResult, quitResult, wire, pushed, delivered, last, cleanups,
                 connects, runs>>

(***************************************************************************)
(* quit: self._socket.close(), which raises AttributeError on None.        *)
(***************************************************************************)
Quit ==
  /\ quitResult = "none"
  /\ IF sock = "none"
     THEN quitResult' = "AttributeError" /\ sock' = sock
     ELSE quitResult' = "ok" /\ sock' = "closed"
  /\ UNCHANGED <<input, stream, enabled, outlets, peer, buffer, running, stopped, runPc,
                 runResult, connectResult, wire, pushed, delivered, last, cleanups,
                 connects, runs>>

(***************************************************************************)
(* What self._socket.recvfrom(self._buffer_read_size) can do: raise        *)
(* AttributeError on None, OSError on a socket that is not connected or is *)
(* closed, and on a connected socket time out (settimeout(3)), fail with a *)
(* connection reset, return b'' when the peer has closed, be interrupted,  *)
(* or return the next 1..BufferReadSize bytes.  The server streams only    *)
(* after a completed handshake.                                            *)
(***************************************************************************)
Min(a, b) == IF a < b THEN a ELSE b

Outcome(kind, n) == [kind |-> kind, n |-> n]

RecvOutcomes ==
  IF sock = "none" THEN {Outcome("attrerror", 0)}
  ELSE IF sock # "connected" THEN {Outcome("oserror", 0)}
  ELSE IF peer = "eof" THEN {Outcome("empty", 0)}
  ELSE IF peer = "reset" THEN {Outcome("reset", 0), Outcome("empty", 0)}
  ELSE {Outcome("timeout", 0), Outcome("reset", 0), Outcome("empty", 0),
        Outcome("interrupt", 0)}
       \cup (IF connectResult = "true"
             THEN {Outcome("data", n) : n \in 1..Min(Len(stream), BufferReadSize)}
             ELSE {})

(***************************************************************************)
(* _read_data as a whole, given what the receive did.  The try body either *)
(* completes and the three lists are returned, or anything it raises       *)
(* (socket error, timeout, decode error, parse error, KeyboardInterrupt)   *)
(* is caught by the bare except: the error is logged, the call sleeps one  *)
(* second and (None, None, None) is returned.  Nothing propagates.         *)
(***************************************************************************)
\* ReadData with an except clause that lets socket.timeout through.
MutReadData(kind, chunk, outs) ==
  LET p == IF kind \in {"data", "empty"} THEN ReadChunk(chunk, outs)
           ELSE [EmptyPass EXCEPT !.ok = FALSE]
  IN [ok |-> p.ok, out |-> p.out, idx |-> p.idx, faultAt |-> p.faultAt,
      isNone |-> ~p.ok, ret |-> IF p.ok THEN p.out ELSE <<>>,
      logged |-> ~p.ok /\ kind # "timeout", slept |-> ~p.ok /\ kind # "timeout",
      raised |-> kind = "timeout"]

ReadData(kind, chunk, outs) ==
  LET p == IF kind \in {"data", "empty"} THEN ReadChunk(chunk, outs)
           ELSE [EmptyPass EXCEPT !.ok = FALSE]
  IN [ok |-> p.ok, out |-> p.out, idx |-> p.idx, faultAt |-> p.faultAt,
      isNone |-> ~p.ok, ret |-> IF p.ok THEN p.out ELSE <<>>,
      logged |-> ~p.ok, slept |-> ~p.ok, raised |-> FALSE]

\* The four independent if statements of _run for one returned sample:
\* the append_data calls they make, in order.
Entry(dev, s) == [dev |-> dev, tag |-> s.tag, t |-> s.t, d |-> s.d]

\* DeliverOne with the E4_Bvp branch appending to the GSR stream.
MutDeliverOne(s) ==
  (IF s.tag = "E4_Acc" THEN <<Entry("ACC-empatica_e4/acc-values", s)>> ELSE <<>>)
  \o (IF s.tag = "E4_Bvp" THEN <<Entry("GSR-empatica_e4/gsr-values", s)>> ELSE <<>>)
  \o (IF s.tag = "E4_Gsr" THEN <<Entry("GSR-empatica_e4/gsr-values", s)>> ELSE <<>>)
  \o (IF s.tag = "E4_Temperature" THEN <<Entry("Tmp-empatica_e4/tmp-values", s)>> ELSE <<>>)

DeliverOne(s) ==
  (IF s.tag = "E4_Acc" THEN <<Entry("ACC-empatica_e4/acc-values", s)>> ELSE <<>>)
  \o (IF s.tag = "E4_Bvp" THEN <<Entry("BVP-empatica_e4/bvp-values", s)>> ELSE <<>>)
  \o (IF s.tag = "E4_Gsr" THEN <<Entry("GSR-empatica_e4/gsr-values", s)>> ELSE <<>>)
  \o (IF s.tag = "E4_Temperature" THEN <<Entry("Tmp-empatica_e4/tmp-values", s)>> ELSE <<>>)

RECURSIVE DeliverAll(_)
DeliverAll(out) ==
  IF out = <<>> THEN <<>> ELSE DeliverOne(Head(out)) \o DeliverAll(Tail(out))

\* Appended with the returned lists walked from the last index down.
MutAppended(r) ==
  IF r.isNone THEN <<>>
  ELSE LET calls == DeliverAll(r.ret)
       IN [i \in 1..Len(calls) |-> calls[Len(calls) + 1 - i]]

\* The append_data calls of one iteration: none when time_s is None.
Appended(r) == IF r.isNone THEN <<>> ELSE DeliverAll(r.ret)

\* BufferAfter with every received chunk accumulated in self._buffer.
MutBufferAfter(buf, chunk) == buf \o chunk

\* self._buffer after a _read_data call that received chunk: _read_data
\* works on the local names rawdata, response and samples and never
\* assigns self._buffer.
BufferAfter(buf, chunk) == buf

\* while True:
MutLoopCondition == TRUE

\* while self._running:
LoopCondition == running

\* finally: self._socket.close()
Cleanup ==
  /\ cleanups' = cleanups + 1
  /\ runPc' = "done"
  /\ IF sock = "none"
     THEN runResult' = "AttributeError" /\ sock' = sock
     ELSE runResult' = "returned" /\ sock' = "closed"

(***************************************************************************)
(* One iteration of the while loop of _run: _read_data, then append_data   *)
(* for every returned sample.  An exception leaving _read_data would be    *)
(* logged by the except clause of _run and end the loop through finally.   *)
(***************************************************************************)
RunIter ==
  /\ runPc = "loop"
  /\ LoopCondition
  /\ \E o \in RecvOutcomes :
     \E r \in {ReadData(o.kind, SubSeq(stream, 1, o.n), outlets)} :
     \E calls \in {Appended(r)} :
       /\ stream' = SubSeq(stream, o.n + 1, Len(stream))
       /\ peer' = IF o.kind = "reset" THEN "reset"
                  ELSE IF o.kind = "empty" /\ peer = "up" THEN "eof"
                  ELSE peer
       /\ buffer' = BufferAfter(buffer, SubSeq(stream, 1, o.n))
       /\ pushed' = pushed \o r.out
       /\ delivered' = delivered \o calls
       /\ last' = [recv |-> o.kind, ok |-> r.ok,
                   faultAt |-> r.faultAt, idx |-> r.idx,
                   n |-> Len(r.ret), appended |-> Len(calls),
                   logged |-> r.logged, slept |-> r.slept]
       /\ IF r.raised
          THEN Cleanup
          ELSE UNCHANGED <<sock, runPc, runResult, cleanups>>
  /\ UNCHANGED <<input, enabled, outlets, running, stopped,
                 connectResult, quitResult, wire, connects, runs>>

\* while self._running: is false.
RunExit ==
  /\ runPc = "loop"
  /\ ~LoopCondition
  /\ Cleanup
  /\ UNCHANGED <<input, stream, enabled, outlets, peer, buffer, running, stopped,
                 connectResult, quitResult, wire, pushed, delivered, last, connects, runs>>

\* KeyboardInterrupt raised in _run outside _read_data: except
\* KeyboardInterrupt: pass, then the finally clause.
RunInterrupt ==
  /\ runPc = "loop"
  /\ running
  /\ Cleanup
  /\ UNCHANGED <<input, stream, enabled, outlets, peer, buffer, running, stopped,
                 connectResult, quitResult, wire, pushed, delivered, last, connects, runs>>

Next == Connect \/ Run \/ Stop \/ Quit \/ RunIter \/ RunExit \/ RunInterrupt

Spec == Init /\ [][Next]_vars

\* The run loop is a thread that keeps being scheduled.
FairSpec == Spec /\ WF_vars(RunIter) /\ WF_vars(RunExit)

TypeOK ==
  /\ sock \in {"none", "unconnected", "connected", "closed"}
  /\ peer \in {"up", "reset", "eof"}
  /\ runPc \in {"idle", "loop", "done"}
  /\ running \in BOOLEAN
  /\ buffer = <<>>

(***************************************************************************)
(* Vocabulary of the properties.                                           *)
(***************************************************************************)
AllDefined == [m \in Modality |-> TRUE]

\* The stream registered for each modality by add_stream in __init__.
SinkOf(tag) ==
  CASE tag = "E4_Acc" -> "ACC-empatica_e4/acc-values"
    [] tag = "E4_Bvp" -> "BVP-empatica_e4/bvp-values"
    [] tag = "E4_Gsr" -> "GSR-empatica_e4/gsr-values"
    [] tag = "E4_Temperature" -> "Tmp-empatica_e4/tmp-values"

Arity(tag) == IF tag = "E4_Acc" THEN 3 ELSE 1

\* The newline-terminated lines of a text, the unterminated rest left out.
CompleteLines(text) ==
  LET ss == SplitLines(text) IN SubSeq(ss, 1, Len(ss) - 1)

\* <tag> <timestamp> <v1> [v2 v3] with a known tag, a decimal timestamp
\* and exactly Arity(tag) numeric values (integral for E4_Acc).
WellFormedLine(line) ==
  LET toks == Tokens(line) IN
  /\ Len(toks) >= 1
  /\ TagOf(toks[1]) # "other"
  /\ Len(toks) = 2 + Arity(TagOf(toks[1]))
  /\ ParseFloat(Replace(toks[2])).ok
  /\ \A j \in 3..Len(toks) :
       IF TagOf(toks[1]) = "E4_Acc" THEN ParseInt(Replace(toks[j])).ok
       ELSE ParseFloat(Replace(toks[j])).ok

\* The append_data call a well-formed line stands for.
ExpectedEntry(line) ==
  LET toks == Tokens(line)
      tag == TagOf(toks[1])
      tm == ParseFloat(Replace(toks[2]))
  IN [dev |-> SinkOf(tag), tag |-> tag, t |-> <<tm.m, tm.e>>,
      d |-> IF tag = "E4_Acc"
            THEN [j \in 1..3 |-> ParseInt(Replace(toks[j + 2])).m]
            ELSE LET v == ParseFloat(Replace(toks[3])) IN <<v.m, v.e>>]

ExpectedEntries(lines) == [i \in 1..Len(lines) |-> ExpectedEntry(lines[i])]

\* The well-formed lines among lines, in order.
WellFormedOf(lines) == SelectSeq(lines, WellFormedLine)

\* The input is only well-formed lines and every byte of it was received by
\* a streaming adapter with all four modalities enabled.
WellFormedInputConsumed ==
  /\ \A i \in 1..Len(CompleteLines(input)) : WellFormedLine(CompleteLines(input)[i])
  /\ enabled = AllEnabled
  /\ stream = <<>>

\* C1: chunking is transparent: once every byte of a well-formed input
\* has been received, in whatever chunks, the lines delivered are exactly
\* the original lines, in order.
C1_ChunkingTransparent ==
  WellFormedInputConsumed => delivered = ExpectedEntries(CompleteLines(input))

\* A _read_data call has just received ChunkRead from the socket.
DataRead == runPc = "loop" /\ stream' # stream

ChunkRead == SubSeq(stream, 1, Len(stream) - Len(stream'))

\* C2: a line that fails to parse is dropped in isolation: when a received
\* chunk is processed with all modalities enabled, every well-formed line
\* of that chunk is delivered, in order, whatever the other lines are.
C2_BadLineIsolated ==
  [][(DataRead /\ enabled = AllEnabled)
       => \A chunk \in {ChunkRead} :
            DecodeOk(chunk)
              => delivered' = delivered
                                \o ExpectedEntries(WellFormedOf(CompleteLines(chunk)))]_vars

\* C3: a connection reset raised by the receive while streaming ends the
\* run loop within that iteration and the cleanup step has run exactly once.
C3_ResetExitsLoop ==
  (connectResult = "true" /\ last.recv = "reset") => (runPc = "done" /\ cleanups = 1)

\* The connection is in the Streaming state: the handshake completed and
\* the socket is open on a live connection.
Streaming == connectResult = "true" /\ sock = "connected" /\ peer = "up"

\* A _read_data call has just returned after the receive did kind.
JustRead(kind) == runPc = "loop" /\ last' # last /\ last'.recv = kind

C5_ShutdownGuarantee ==
  (stopped /\ quitResult # "none") => (quitResult = "ok" /\ sock = "closed")

\* C6: whenever _run ends, the socket has been closed by the cleanup step
\* and the cleanup step has not raised.
C6_RunLoopCleanup ==
  [][(runPc = "loop" /\ runPc' = "done")
       => (runResult' = "returned" /\ sock' = "closed")]_vars

\* C7: once stop has cleared the running flag, the run loop starts no new
\* iteration and eventually exits, whatever the receive does.
C7_CancellationLive ==
  /\ [][(runPc = "loop" /\ ~running)
          => (last' = last /\ delivered' = delivered /\ pushed' = pushed
              /\ stream' = stream)]_vars
  /\ ((runPc = "loop" /\ ~running) ~> (runPc = "done"))

C7_Witness ==
  stopped /\ ~running /\ runPc = "done" /\ last.recv = "timeout"

\* C8: every delivered sample is in the sink registered for its modality,
\* and every sample _read_data returns is delivered to exactly one sink.
C8_DemuxRouting ==
  /\ \A i \in 1..Len(delivered) : delivered[i].dev = SinkOf(delivered[i].tag)
  /\ last.appended = last.n

C8_Witness ==
  /\ last.recv = "data" /\ last.n = 4
  /\ {delivered[i].dev : i \in 1..Len(delivered)}
       = {SinkOf(m) : m \in Modality}

\* The tag of a line whose first token is a known tag.
LineTag(line) == TagOf(Tokens(line)[1])

EnabledLine(line) == enabled[LineTag(line)]

\* C9: a well-formed line of a modality that is not enabled is ignored:
\* a chunk of well-formed lines is processed without error, its lines of
\* enabled modalities are all delivered and no other line is.
C9_DisabledIgnored ==
  [][DataRead
       => \A lines \in {CompleteLines(ChunkRead)} :
            (DecodeOk(ChunkRead) /\ WellFormedOf(lines) = lines)
              => /\ last'.ok
                 /\ delivered' = delivered
                      \o ExpectedEntries(SelectSeq(lines, EnabledLine))]_vars

\* A line with a first token that is none of the four tags.
UnknownTagLine(line) ==
  Len(Tokens(line)) >= 1 /\ TagOf(Tokens(line)[1]) = "other"

\* C10: a line with an unknown tag produces no sample and no fault: it is
\* never the line at which _read_data raised nor one that gave a sample.
C10_UnknownTagSkipped ==
  [][DataRead
       => \A lines \in {CompleteLines(ChunkRead)} :
            DecodeOk(ChunkRead)
              => \A i \in 1..Len(lines) : \A line \in {lines[i]} :
                   UnknownTagLine(line)
                     => /\ last'.faultAt # i
                        /\ \A j \in 1..Len(last'.idx) : last'.idx[j] # i]_vars

\* Two unknown-tag lines and an E4_Gsr line received as one chunk: only
\* the third line gave a sample.
C10_Witness ==
  /\ input = LnUnknown1 \o LnUnknown \o LnGsr
  /\ stream = <<>>
  /\ last.recv = "data" /\ last.ok /\ last.idx = <<3>>
  /\ Len(delivered) = 1

(***************************************************************************)
(* Handshake and connect failures.                                         *)
(***************************************************************************)
IsSend(x) == x.op = "send"

\* The commands sent on the socket by the last _connect, in order.
SentCommands == [i \in 1..Len(SelectSeq(wire, IsSend)) |-> SelectSeq(wire, IsSend)[i].cmd]

\* The modalities in the order _connect subscribes to them, and the name
\* each has in the device_subscribe command.
SubscribeOrder == <<"E4_Acc", "E4_Bvp", "E4_Gsr", "E4_Temperature">>

SubscribeName(m) ==
  CASE m = "E4_Acc" -> "device_subscribe acc ON"
    [] m = "E4_Bvp" -> "device_subscribe bvp ON"
    [] m = "E4_Gsr" -> "device_subscribe gsr ON"
    [] m = "E4_Temperature" -> "device_subscribe tmp ON"

IsEnabled(m) == enabled[m]

EnabledSubscribes ==
  [i \in 1..Len(SelectSeq(SubscribeOrder, IsEnabled))
     |-> SubscribeName(SelectSeq(SubscribeOrder, IsEnabled)[i])]

\* C11: handshake ordering.  Sends and response reads alternate at every
\* point of the handshake, one read after each command; after a successful
\* connect the commands sent after the device selection are 'pause ON',
\* one device_subscribe per enabled modality and none for a disabled one,
\* then 'pause OFF', and the last step before Streaming is the read of the
\* response to 'pause OFF'.
C11_HandshakeOrdering ==
  /\ \A i \in 1..Len(wire) : wire[i].op = IF i % 2 = 1 THEN "send" ELSE "recv"
  /\ connectResult = "true"
       => /\ SentCommands = <<"device_list", "device_connect D931CD", "pause ON">>
                               \o EnabledSubscribes \o <<"pause OFF">>
          /\ Len(wire) = 2 * Len(SentCommands)
          /\ wire[Len(wire)].op = "recv"
          /\ wire[Len(wire) - 1] = Send("pause OFF")

\* A completed handshake with E4_Acc disabled: seven commands.
C11_Witness ==
  /\ connectResult = "true" /\ Streaming
  /\ ~enabled["E4_Acc"]
  /\ Len(SentCommands) = 7

\* A call of _connect has just ended.
ConnectEnded == connects' = connects + 1

\* The adapter holds a socket object that has not been closed.
HoldsOpenSocket == sock \in {"unconnected", "connected"}

\* C12: when opening the TCP connection fails, no handshake command has
\* been sent, the connection is not Streaming and the adapter is left
\* holding no open socket.
C12_ConnectFailureClean ==
  [][(ConnectEnded /\ connectResult' = "unreachable")
       => (wire' = <<>> /\ ~Streaming' /\ ~HoldsOpenSocket')]_vars

(***************************************************************************)
(* Line parsing.                                                           *)
(***************************************************************************)
\* C13: arity enforcement.  A line of a received chunk gives a sample only
\* when it has exactly the number of values fixed for its tag, all
\* numeric; and a chunk that is one well-formed line of a modality whose
\* outlet exists gives that sample.
C13_ArityEnforced ==
  [][DataRead
       => \A lines \in {CompleteLines(ChunkRead)} :
            DecodeOk(ChunkRead)
              => /\ \A j \in 1..Len(last'.idx) : WellFormedLine(lines[last'.idx[j]])
                 /\ (Len(lines) = 1 /\ WellFormedLine(lines[1])
                       /\ outlets[LineTag(lines[1])])
                      => (last'.ok /\ last'.idx = <<1>>)]_vars

\* A text with every fractional separator written '.', and with every one
\* written ','.  In the lines of the catalogue both characters occur only
\* inside numeric tokens.
WithDots(text) == [i \in 1..Len(text) |-> IF text[i] = "," THEN "." ELSE text[i]]
WithCommas(text) == [i \in 1..Len(text) |-> IF text[i] = "." THEN "," ELSE text[i]]

\* C14: decimal normalization.  What _read_data makes of a received chunk
\* (the samples, or the rejection) is what it makes of the same chunk
\* written with '.' separators and of the same chunk written with ','
\* separators.
C14_DecimalNormalized ==
  [][DataRead
       => \A chunk \in {ChunkRead} :
          \A dots \in {ReadChunk(WithDots(chunk), outlets)} :
          \A commas \in {ReadChunk(WithCommas(chunk), outlets)} :
            /\ dots = commas
            /\ last'.ok = dots.ok
            /\ pushed' = pushed \o dots.out]_vars

\* The line 'E4_Bvp 2,5 3,25' has given the sample (2.5, 3.25).
C14_Witness ==
  /\ last.recv = "data" /\ last.ok
  /\ \E i \in 1..Len(delivered) :
       /\ delivered[i].tag = "E4_Bvp"
       /\ delivered[i].t = <<25, 1>>
       /\ delivered[i].d = <<325, 2>>

(***************************************************************************)
(* Delivery.                                                               *)
(***************************************************************************)
\* The lines of lines at the indices idx, in that order.
LinesAt(lines, idx) == [j \in 1..Len(idx) |-> lines[idx[j]]]

\* C15: exactly-once delivery.  While streaming, the append_data calls of
\* an iteration are one call for each line of the received chunk that
\* _read_data parsed, carrying that line's timestamp and values, in line
\* order, and no other call.
C15_ExactlyOnce ==
  [][(Streaming /\ DataRead)
       => \A lines \in {CompleteLines(ChunkRead)} :
            delivered' = delivered \o ExpectedEntries(LinesAt(lines, last'.idx))]_vars

(***************************************************************************)
(* Fatal socket conditions.                                                *)
(***************************************************************************)
\* C16: an orderly close by the peer while streaming (the receive returns
\* zero bytes) is fatal: the iteration that read it ends the run loop and
\* the socket is closed.
C16_PeerCloseExitsLoop ==
  (connectResult = "true" /\ peer = "eof" /\ last.recv = "empty")
    => (runPc = "done" /\ sock = "closed")

\* C17: a socket error at any send or response read of the handshake
\* leaves the connection not Streaming, the socket closed and the buffer
\* empty.
C17_HandshakeFailureClean ==
  [][(ConnectEnded /\ connectResult' = "raised")
       => (~Streaming' /\ ~HoldsOpenSocket' /\ buffer' = <<>>)]_vars

(***************************************************************************)
(* Empty lines and the pending buffer.                                     *)
(***************************************************************************)
\* An empty or whitespace-only line.
BlankLine(line) == Tokens(line) = <<>>

NonBlankLine(line) == ~BlankLine(line)

\* The pass of _read_data over lines with the blank ones taken out (the
\* loop leaves out the last element of the list it is given).
PassWithoutBlank(lines) ==
  LineLoop(SelectSeq(lines, NonBlankLine) \o << <<>> >>, 1, outlets, EmptyPass)

\* C18: empty lines are discarded silently.  A blank line of a received
\* chunk is never the line at which _read_data raises, and the chunk gives
\* the samples and the outcome it gives with its blank lines taken out.
C18_BlankLineSilent ==
  [][DataRead
       => \A lines \in {CompleteLines(ChunkRead)} :
            DecodeOk(ChunkRead)
              => /\ \A i \in 1..Len(lines) : BlankLine(lines[i]) => last'.faultAt # i
                 /\ \A p \in {PassWithoutBlank(lines)} :
                      /\ last'.ok = p.ok
                      /\ pushed' = pushed \o p.out
                      /\ delivered' = delivered \o (IF p.ok THEN DeliverAll(p.out) ELSE <<>>)]_vars

\* C19: pending-buffer invariant.  Between read iterations self._buffer
\* holds no line terminator and no byte that failed to decode.
C19_PendingBufferClean ==
  \A i \in 1..Len(buffer) : buffer[i] # NL /\ buffer[i] # BadByte

\* Every byte of an input with three line terminators and an undecodable
\* byte has been received.
C19_Witness ==
  /\ input = LnLong \o LnBlank \o LnGarbage
  /\ stream = <<>>
  /\ last.recv = "data" /\ ~last.ok
  /\ runPc = "loop"

(***************************************************************************)
(* The two consumers of a sample.                                          *)
(***************************************************************************)
\* The samples pushed to the LSL outlet of modality m, in order.
PushedTo(m) == SelectSeq(pushed, LAMBDA s : s.tag = m)

\* The samples appended to the stream of modality m, in order.
AppendedTo(m) ==
  LET es == SelectSeq(delivered, LAMBDA e : e.dev = SinkOf(m))
  IN [i \in 1..Len(es) |-> [tag |-> es[i].tag, t |-> es[i].t, d |-> es[i].d]]

\* C20: between run-loop iterations, for each modality the samples pushed
\* to its LSL outlet are the samples appended to its stream, in order.
C20_ConsumersConsistent ==
  \A m \in Modality : PushedTo(m) = AppendedTo(m)

(***************************************************************************)
(* External interrupt.                                                     *)
(***************************************************************************)
\* C21: a KeyboardInterrupt delivered while the run loop is blocked in the
\* receive of _read_data ends the run loop and the socket is closed: the
\* loop is never found still iterating after the interrupted receive.
C21_InterruptExitsLoop ==
  last.recv = "interrupt" => (runPc = "done" /\ sock = "closed")

(***************************************************************************)
(* Order of delivery.                                                      *)
(***************************************************************************)
\* s is t with some elements left out, the order kept.
RECURSIVE IsSubseq(_, _)
IsSubseq(s, t) ==
  IF s = <<>> THEN TRUE
  ELSE IF t = <<>> THEN FALSE
  ELSE IF Head(s) = Head(t) THEN IsSubseq(Tail(s), Tail(t))
  ELSE IsSubseq(s, Tail(t))

\* A line that gives a sample of modality m when every outlet exists.
SampleLineOf(m, line) ==
  LET r == LineStep(line, AllDefined) IN r.res = "sample" /\ r.s.tag = m

\* The samples of modality m in the byte stream, in the order of their
\* lines.
StreamSamples(m) ==
  LET ls == SelectSeq(CompleteLines(input), LAMBDA line : SampleLineOf(m, line))
  IN [i \in 1..Len(ls) |-> LineStep(ls[i], AllDefined).s]

\* C22: order preservation.  For each modality the samples appended to its
\* stream are samples of lines of the byte stream, in the order of those
\* lines, whatever the chunks were.
C22_OrderPreserved ==
  \A m \in Modality : IsSubseq(AppendedTo(m), StreamSamples(m))

\* Two E4_Gsr lines with an E4_Temperature line between them have been
\* delivered, the second by a later chunk than the first.
C22_Witness ==
  /\ input = LnGsr \o LnTmp \o LnGsr2
  /\ Len(AppendedTo("E4_Gsr")) = 2
  /\ AppendedTo("E4_Gsr")[1].t = <<3, 0>>
  /\ AppendedTo("E4_Gsr")[2].t = <<9, 0>>
  /\ last.recv = "data" /\ last.n = 1

====
